---------------------------- MODULE Spec2Model ----------------------------
(***************************************************************************)
(* A model of ng-spring-data-rest (src/ng-spring-data-rest.js): the run of *)
(* doGenerate against a Spring Data REST server, the schema normalizer     *)
(* and the reference resolver postProcessTypeScriptFiles.                  *)
(*                                                                         *)
(* Strings are sequences of one-character strings, so that the regular     *)
(* expressions and the lodash case conversions of the source are computed  *)
(* character by character.  A generated TypeScript text is a sequence of   *)
(* lines, each line a record naming its shape and its variable parts.      *)
(***************************************************************************)
EXTENDS Naturals, Sequences, FiniteSets

(***************************************************************************)
(* Bounds of the model.                                                    *)
(***************************************************************************)
\* the largest number of link keys (other than self) the server lists
MaxEntities == 2
\* the largest number of properties of a schema / descriptors of a profile
MaxProps == 2
\* the nesting depth of "properties" below a schema property
MaxDepth == 2

(***************************************************************************)
(* Optional values: a JavaScript value that may be undefined.              *)
(***************************************************************************)
None == << >>
Some(v) == << v >>
IsSome(o) == o # << >>
Val(o) == o[1]

(***************************************************************************)
(* Characters.                                                             *)
(***************************************************************************)
LowerChars == << "a", "b", "c", "d", "e", "f", "g", "h", "i", "j", "k", "l", "m",
                 "n", "o", "p", "q", "r", "s", "t", "u", "v", "w", "x", "y", "z" >>
UpperChars == << "A", "B", "C", "D", "E", "F", "G", "H", "I", "J", "K", "L", "M",
                 "N", "O", "P", "Q", "R", "S", "T", "U", "V", "W", "X", "Y", "Z" >>
DigitChars == << "0", "1", "2", "3", "4", "5", "6", "7", "8", "9" >>

IsIn(c, chars) == \E i \in 1..Len(chars) : chars[i] = c
IndexIn(c, chars) == CHOOSE i \in 1..Len(chars) : chars[i] = c
IsLower(c) == IsIn(c, LowerChars)
IsUpper(c) == IsIn(c, UpperChars)
IsDigit(c) == IsIn(c, DigitChars)
IsAlnum(c) == IsLower(c) \/ IsUpper(c) \/ IsDigit(c)
\* the class \w of a JavaScript regular expression
IsWordChar(c) == IsAlnum(c) \/ c = "_"
ToUpperChar(c) == IF IsLower(c) THEN UpperChars[IndexIn(c, LowerChars)] ELSE c
ToLowerChar(c) == IF IsUpper(c) THEN LowerChars[IndexIn(c, UpperChars)] ELSE c
ToLower(s) == [i \in 1..Len(s) |-> ToLowerChar(s[i])]
UpperFirst(s) == IF s = << >> THEN s ELSE << ToUpperChar(s[1]) >> \o Tail(s)

IsPrefix(p, s) == Len(p) <= Len(s) /\ SubSeq(s, 1, Len(p)) = p
IsSuffix(p, s) == Len(p) <= Len(s) /\ SubSeq(s, Len(s) - Len(p) + 1, Len(s)) = p

(***************************************************************************)
(* lodash: words, camelCase, kebabCase.                                    *)
(* A word ends at every character that is not a letter or a digit, between *)
(* a lower-case letter or digit and an upper-case letter, between a letter *)
(* and a digit, and before the last capital of a run of capitals that a    *)
(* lower-case letter follows.                                              *)
(***************************************************************************)
WordBreakBefore(s, i) ==
    /\ i > 1
    /\ \/ IsUpper(s[i]) /\ (IsLower(s[i-1]) \/ IsDigit(s[i-1]))
       \/ IsUpper(s[i]) /\ IsUpper(s[i-1]) /\ i < Len(s) /\ IsLower(s[i+1])
       \/ IsDigit(s[i]) /\ (IsLower(s[i-1]) \/ IsUpper(s[i-1]))
       \/ IsLower(s[i]) /\ IsDigit(s[i-1])

RECURSIVE WordsFrom(_, _, _, _)
WordsFrom(s, i, cur, acc) ==
    LET flushed == IF cur = << >> THEN acc ELSE Append(acc, cur) IN
    IF i > Len(s) THEN flushed
    ELSE IF ~IsAlnum(s[i]) THEN WordsFrom(s, i + 1, << >>, flushed)
    ELSE IF WordBreakBefore(s, i) THEN WordsFrom(s, i + 1, << s[i] >>, flushed)
    ELSE WordsFrom(s, i + 1, Append(cur, s[i]), acc)

Words(s) == WordsFrom(s, 1, << >>, << >>)

RECURSIVE JoinCamel(_, _)
JoinCamel(ws, i) ==
    IF i > Len(ws) THEN << >>
    ELSE (IF i = 1 THEN ToLower(ws[i]) ELSE UpperFirst(ToLower(ws[i])))
         \o JoinCamel(ws, i + 1)

camelCase(s) == JoinCamel(Words(s), 1)

RECURSIVE JoinKebab(_, _)
JoinKebab(ws, i) ==
    IF i > Len(ws) THEN << >>
    ELSE (IF i = 1 THEN << >> ELSE << "-" >>) \o ToLower(ws[i]) \o JoinKebab(ws, i + 1)

kebabCase(s) == JoinKebab(Words(s), 1)

upperCamelCase(toConvert) ==
    LET inCamelCase == camelCase(toConvert) IN
    IF inCamelCase = << >> THEN << >>
    ELSE << ToUpperChar(inCamelCase[1]) >> \o SubSeq(inCamelCase, 2, Len(inCamelCase))

(***************************************************************************)
(* pluralize.isPlural, for regular English nouns: a name that ends in s.   *)
(***************************************************************************)
isPlural(word) == word # << >> /\ word[Len(word)] = "s"

(***************************************************************************)
(* The regular expressions over identifiers.                               *)
(***************************************************************************)
\* the end of the run of \w characters that starts at i
RECURSIVE WordRunEnd(_, _)
WordRunEnd(s, i) ==
    IF i < Len(s) /\ IsWordChar(s[i+1]) THEN WordRunEnd(s, i + 1) ELSE i

\* REGEXP_RT_ENTITY_NAME = /#(\w+)-/ : the leftmost '#', a greedy run of \w
\* and '-'.  Yields [all |-> match[0], word |-> match[1]], or None (null).
MatchRtEntityName(rt) ==
    LET hits == { i \in 1..Len(rt) :
                    /\ rt[i] = "#"
                    /\ i < Len(rt) /\ IsWordChar(rt[i+1])
                    /\ WordRunEnd(rt, i + 1) < Len(rt)
                    /\ rt[WordRunEnd(rt, i + 1) + 1] = "-" }
    IN IF hits = {} THEN None
       ELSE LET i == CHOOSE h \in hits : \A g \in hits : h <= g
                e == WordRunEnd(rt, i + 1)
            IN Some([all |-> SubSeq(rt, i, e + 1), word |-> SubSeq(rt, i + 1, e)])

\* REGEXP_OWN_ENTITY_NAME = /(\w+)-/ : the leftmost run of \w that a '-'
\* follows.  Yields match[1], or None (null).
MatchOwnEntityName(id) ==
    LET hits == { i \in 1..Len(id) :
                    /\ IsWordChar(id[i])
                    /\ WordRunEnd(id, i) < Len(id)
                    /\ id[WordRunEnd(id, i) + 1] = "-" }
    IN IF hits = {} THEN None
       ELSE LET i == CHOOSE h \in hits : \A g \in hits : h <= g
            IN Some(SubSeq(id, i, WordRunEnd(id, i)))

(***************************************************************************)
(* Generated TypeScript text.  A line is one of                            *)
(*   baseImport  import { Resource } from '@lagoshny/ngx-hal-client';      *)
(*   import      import { <name> } from './<file>';                        *)
(*   alias       export type <name> = <type>;                              *)
(*   ifaceOpen   export interface <name> {                                 *)
(*   classOpen   export class <name> extends Resource implements I<name> { *)
(*   prop          <name>[?]: <type>;                                      *)
(*   close       }                                                         *)
(* and a type is a name with or without a trailing [].                     *)
(***************************************************************************)
Type(name, arr) == [name |-> name, arr |-> arr]
NoType == Type(<< >>, FALSE)
Line(kind, name, opt, type, file) ==
    [kind |-> kind, name |-> name, opt |-> opt, type |-> type, file |-> file]

\* STR_IMPORT_REPLACE
BaseImportLine == Line("baseImport", << >>, FALSE, NoType, << >>)
ImportLine(name, file) == Line("import", name, FALSE, NoType, file)
AliasLine(name, type) == Line("alias", name, FALSE, type, << >>)
IfaceOpenLine(name) == Line("ifaceOpen", name, FALSE, NoType, << >>)
ClassOpenLine(name) == Line("classOpen", name, FALSE, NoType, << >>)
PropLine(name, opt, type) == Line("prop", name, opt, type, << >>)
CloseLine == Line("close", << >>, FALSE, NoType, << >>)

StringType == Type(<< "s", "t", "r", "i", "n", "g" >>, FALSE)

\* the first of the lines hits (a set of indices), 0 when there is none: a
\* match or a replace without the g flag takes the first match only
FirstLine(hits) ==
    IF hits = {} THEN 0 ELSE CHOOSE h \in hits : \A g \in hits : h <= g

RemoveLine(text, i) == SubSeq(text, 1, i - 1) \o SubSeq(text, i + 1, Len(text))
InsertAfter(text, i, line) ==
    SubSeq(text, 1, i) \o << line >> \o SubSeq(text, i + 1, Len(text))

(***************************************************************************)
(* new RegExp('(' + propertyName + '\\??: )(.+)(;)$', 'm') matched against   *)
(* the text: the pattern is not anchored at its start, so it matches in    *)
(* the first property line whose name ENDS with propertyName.  The match   *)
(* is [name |-> propertyName, opt, type]: match[0] is name[?]: type; and   *)
(* match[1] is name[?]: , match[2] is type, match[3] is ;                  *)
(***************************************************************************)
MatchesPropertyPattern(line, propertyName) ==
    line.kind = "prop" /\ IsSuffix(propertyName, line.name)

MatchPropertyType(renderedClass, propertyName) ==
    LET Hit(line) == MatchesPropertyPattern(line, propertyName)
        i == FirstLine({ k \in 1..Len(renderedClass) : Hit(renderedClass[k]) })
    IN IF i = 0 THEN None
       ELSE Some([name |-> propertyName, opt |-> renderedClass[i].opt,
                  type |-> renderedClass[i].type])

(***************************************************************************)
(* renderedClass.replace(new RegExp('export type ' + type + '.*;\\n'), '')   *)
(* removes the first alias line whose name STARTS with the type's name:    *)
(* .* follows the name in the pattern.  The type's text goes into the      *)
(* pattern unescaped, and [] there is a character class no character is    *)
(* in, so for an array type nothing matches.                               *)
(***************************************************************************)
MatchesExportPattern(line, type) ==
    line.kind = "alias" /\ ~type.arr /\ IsPrefix(type.name, line.name)

RemoveExportType(renderedClass, type) ==
    LET Hit(line) == MatchesExportPattern(line, type)
        i == FirstLine({ k \in 1..Len(renderedClass) : Hit(renderedClass[k]) })
    IN IF i = 0 THEN renderedClass ELSE RemoveLine(renderedClass, i)

(***************************************************************************)
(* exportRemoved.replace(new RegExp(escapeRegExp(match[0]), 'g'), ...):    *)
(* every occurrence of the literal text name[?]: type; gets the new type,  *)
(* so every property line whose name ends with the name and whose marker   *)
(* and type are those of the match.                                        *)
(***************************************************************************)
ContainsMatchedText(line, oldTypeMatches) ==
    /\ line.kind = "prop"
    /\ IsSuffix(oldTypeMatches.name, line.name)
    /\ line.opt = oldTypeMatches.opt
    /\ line.type = oldTypeMatches.type

ReplaceType(exportRemoved, oldTypeMatches, newPropertyType) ==
    [i \in 1..Len(exportRemoved) |->
        IF ContainsMatchedText(exportRemoved[i], oldTypeMatches)
        THEN [exportRemoved[i] EXCEPT !.type = newPropertyType]
        ELSE exportRemoved[i]]

Includes(text, line) == \E i \in 1..Len(text) : text[i] = line

\* typeReplaced.replace(STR_IMPORT_REPLACE, STR_IMPORT_REPLACE + '\n' + newImport)
AddImport(typeReplaced, newImport) ==
    LET Hit(line) == line = BaseImportLine
        i == FirstLine({ k \in 1..Len(typeReplaced) : Hit(typeReplaced[k]) })
    IN IF i = 0 THEN typeReplaced ELSE InsertAfter(typeReplaced, i, newImport)

(***************************************************************************)
(* postProcessTypeScriptFiles.  A profile property is [name, rt], rt None  *)
(* when the property has no 'rt'.  The result is None when the function    *)
(* throws (a match that yields null is indexed).                           *)
(***************************************************************************)
ResolveProperty(renderedClass, property) ==
    LET propertyName == property.name
        rtMatch == MatchRtEntityName(Val(property.rt))
    IN IF ~IsSome(rtMatch) THEN None
       ELSE
       LET referencedEntity == upperCamelCase(Val(rtMatch).all)
           newPropertyType == Type(referencedEntity, isPlural(propertyName))
           oldTypeMatches == MatchPropertyType(renderedClass, propertyName)
       IN IF ~IsSome(oldTypeMatches) THEN None
          ELSE
          LET exportRemoved == RemoveExportType(renderedClass, Val(oldTypeMatches).type)
              typeReplaced == ReplaceType(exportRemoved, Val(oldTypeMatches),
                                          newPropertyType)
              newImport == ImportLine(referencedEntity, kebabCase(referencedEntity))
          IN Some(IF Includes(typeReplaced, newImport)
                  THEN typeReplaced
                  ELSE AddImport(typeReplaced, newImport))

RECURSIVE PostProcessFrom(_, _, _)
PostProcessFrom(descriptors, i, renderedClass) ==
    IF i > Len(descriptors) THEN Some(renderedClass)
    ELSE IF ~IsSome(descriptors[i].rt)
         THEN PostProcessFrom(descriptors, i + 1, renderedClass)
         ELSE LET step == ResolveProperty(renderedClass, descriptors[i])
              IN IF ~IsSome(step) THEN None
                 ELSE PostProcessFrom(descriptors, i + 1, Val(step))

\* entity.alps.descriptor[0].descriptor
PropertyDescriptors(entity) == Val(entity.alps).descriptor

postProcessTypeScriptFiles(entity, renderedClass) ==
    PostProcessFrom(PropertyDescriptors(entity), 1, renderedClass)

(***************************************************************************)
(* JSON schemas and ALPS profiles.                                         *)
(* A schema is [properties, definitions, additionalProperties]; properties *)
(* and definitions are None when the schema has no such member, else a     *)
(* sequence of property definitions [name, title, ref, required,           *)
(* properties], in the order of the JSON object's keys.                    *)
(* A profile (response.data.alps) is [id, descriptor]: the id of           *)
(* descriptor[0] and its list of property descriptors [name, rt].          *)
(***************************************************************************)
Property(name, title, ref, required, properties) ==
    [name |-> name, title |-> title, ref |-> ref, required |-> required,
     properties |-> properties]
Schema(properties, definitions) ==
    [properties |-> properties, definitions |-> definitions,
     additionalProperties |-> None]
Descriptor(name, rt) == [name |-> name, rt |-> rt]
Profile(id, descriptor) == [id |-> id, descriptor |-> descriptor]

RECURSIVE SelectTitled(_, _)
SelectTitled(props, i) ==
    IF i > Len(props) THEN << >>
    ELSE (IF IsSome(props[i].title) THEN << props[i] >> ELSE << >>)
         \o SelectTitled(props, i + 1)

(***************************************************************************)
(* jsonTs.compile(schema, name): the output shape of                       *)
(* json-schema-to-typescript for a flat schema.  A property with a title   *)
(* gets a named alias (export type <Title> = string;) declared before the  *)
(* interface and used as the property's type; a property without a title   *)
(* is typed string.  A property that is not required is optional.          *)
(***************************************************************************)
AliasName(title) == UpperFirst(title)

compile(schema, name) ==
    LET props == IF IsSome(schema.properties) THEN Val(schema.properties) ELSE << >>
        titled == SelectTitled(props, 1)
        aliases == [i \in 1..Len(titled) |->
                       AliasLine(AliasName(Val(titled[i].title)), StringType)]
        attributes == [i \in 1..Len(props) |->
                          PropLine(props[i].name, ~props[i].required,
                                   IF IsSome(props[i].title)
                                   THEN Type(AliasName(Val(props[i].title)), FALSE)
                                   ELSE StringType)]
    IN aliases \o << IfaceOpenLine(UpperFirst(name)) >> \o attributes \o << CloseLine >>

\* the first line REGEXP_TYPESCRIPT_INTERFACE_NAME matches
InterfaceLineIndex(interfaceDefinition) ==
    LET Hit(line) == line.kind = "ifaceOpen"
    IN FirstLine({ k \in 1..Len(interfaceDefinition) : Hit(interfaceDefinition[k]) })

\* interfaceDefinition.replace(REGEXP_TYPESCRIPT_INTERFACE_NAME, '$1I$2$3')
PrefixInterfaceName(interfaceDefinition) ==
    LET i == InterfaceLineIndex(interfaceDefinition)
    IN IF i = 0 THEN interfaceDefinition
       ELSE [interfaceDefinition EXCEPT ![i].name = << "I" >> \o @]

\* REGEXP_TYPESCRIPT_INTERFACE_ATTRIBUTES: the lines between the first
\* interface's opening line and the first closing line after it
InterfaceAttributes(interfaceDefinition) ==
    LET i == InterfaceLineIndex(interfaceDefinition)
        closes == { j \in (i + 1)..Len(interfaceDefinition) :
                      interfaceDefinition[j].kind = "close" }
        j == CHOOSE c \in closes : \A d \in closes : c <= d
    IN SubSeq(interfaceDefinition, i + 1, j - 1)

(***************************************************************************)
(* The class template (templates/class): the base-class import, the        *)
(* interface definition, and the class with the interface's attributes.    *)
(***************************************************************************)
RenderClass(classTemplateData) ==
    << BaseImportLine >>
    \o classTemplateData.interfaceDefinition
    \o << ClassOpenLine(classTemplateData.className) >>
    \o classTemplateData.classAttributes
    \o << CloseLine >>

\* lines 505-528 of generateTypeScriptFromSchema: from the compiler's
\* output to the data handed to the class template
ClassTemplateData(compiled) ==
    LET interfaceDefinition == PrefixInterfaceName(compiled)
        interfaceName == interfaceDefinition[InterfaceLineIndex(interfaceDefinition)].name
    IN [interfaceDefinition |-> interfaceDefinition,
        interfaceName |-> interfaceName,
        className |-> Tail(interfaceName),
        classAttributes |-> InterfaceAttributes(interfaceDefinition)]

\* the rendered class before postProcessTypeScriptFiles
RenderedClassOf(entity) ==
    RenderClass(ClassTemplateData(compile(Val(entity.schema), Val(entity.name))))

(***************************************************************************)
(* The Spring Data REST server the runs talk to: four repositories.        *)
(*   books    domain type book:   name, author -> person                   *)
(*   people   domain type person: books -> book, grandparent               *)
(*   archive  domain type book again (a second repository of the type)     *)
(*   tomes    domain type BOOK                                             *)
(* Every schema property carries a title, as Spring Data REST emits it.    *)
(***************************************************************************)
W_book == << "b", "o", "o", "k" >>
W_BOOK == << "B", "O", "O", "K" >>
W_books == << "b", "o", "o", "k", "s" >>
W_person == << "p", "e", "r", "s", "o", "n" >>
W_personName == << "p", "e", "r", "s", "o", "n", "N", "a", "m", "e" >>
W_parent == << "p", "a", "r", "e", "n", "t" >>
W_grandparent == << "g", "r", "a", "n", "d", "p", "a", "r", "e", "n", "t" >>
W_author == << "a", "u", "t", "h", "o", "r" >>
W_name == << "n", "a", "m", "e" >>
W_representation == << "r", "e", "p", "r", "e", "s", "e", "n", "t", "a", "t", "i", "o", "n" >>

\* the id of a profile's primary descriptor, and the rt of a relation
ProfileId(word) == word \o << "-" >> \o W_representation
RtTo(word) == << "/" >> \o word \o << "s", "#" >> \o word \o << "-" >> \o W_representation

Titled(name, required) == Property(name, Some(name), None, required, None)

KeyPool == { "books", "people", "archive", "tomes" }

ServerSchema(key) ==
    CASE key = "books" -> Schema(Some(<< Titled(W_name, TRUE), Titled(W_author, FALSE) >>), None)
      [] key = "people" ->
            Schema(Some(<< Titled(W_books, FALSE), Titled(W_grandparent, FALSE) >>), None)
      [] key = "archive" -> Schema(Some(<< Titled(W_name, TRUE) >>), None)
      [] OTHER -> Schema(None, None)

\* the profiles the server may serve for a key: the regular one, and for
\* people one whose relation's rt does not name an entity and two that
\* describe a property the schema does not have (author; parent, with
\* which the name of the schema's property grandparent ends)
ServerProfiles(key) ==
    CASE key = "books" ->
            { Profile(ProfileId(W_book),
                      << Descriptor(W_name, None), Descriptor(W_author, Some(RtTo(W_person))) >>) }
      [] key = "people" ->
            { Profile(ProfileId(W_person),
                      << Descriptor(W_books, Some(RtTo(W_book))),
                         Descriptor(W_grandparent, None) >>),
              Profile(ProfileId(W_person), << Descriptor(W_books, Some(W_books)) >>),
              Profile(ProfileId(W_person), << Descriptor(W_author, Some(RtTo(W_person))) >>),
              Profile(ProfileId(W_person), << Descriptor(W_parent, Some(RtTo(W_person))) >>) }
      [] key = "archive" ->
            { Profile(ProfileId(W_book), << Descriptor(W_name, None) >>) }
      [] OTHER ->
            { Profile(ProfileId(W_BOOK), << >>) }

\* a profile whose primary descriptor id has no separator
MalformedProfile == Profile(W_book, << >>)

(***************************************************************************)
(* Object.keys(response.data._links): sequences of distinct keys, with or  *)
(* without the self link, at most MaxEntities of them other than self.     *)
(***************************************************************************)
Range(seq) == { seq[i] : i \in 1..Len(seq) }
IsInjective(seq) == \A i, j \in 1..Len(seq) : seq[i] = seq[j] => i = j
LinkKeyLists ==
    { keys \in UNION { [1..n -> KeyPool \cup { "self" }] : n \in 0..(MaxEntities + 1) } :
        /\ IsInjective(keys)
        /\ Cardinality(Range(keys) \ { "self" }) <= MaxEntities }

\* removeElementFromArray(array, element): the first occurrence is spliced out
removeElementFromArray(array, element) ==
    LET hits == { i \in 1..Len(array) : array[i] = element }
    IN IF hits = {} THEN array
       ELSE RemoveLine(array, CHOOSE h \in hits : \A g \in hits : h <= g)

(***************************************************************************)
(* Exit statuses.                                                          *)
(***************************************************************************)
ExitAuthentication == 5
ExitNoLinks == 4
ExitCollectRepositories == 3
ExitCollectSchemas == 6
ExitCollectAlps == 7
\* doGenerate's promise is rejected and nobody handles it: Node ends the
\* process with status 1, and before version 15 warns and ends with 0
UnhandledRejectionStatuses == { 0, 1 }

(***************************************************************************)
(* The state of a run.                                                     *)
(***************************************************************************)
VARIABLES
    pc,                    \* where doGenerate stands
    options,               \* the command line options
    links,                 \* Some(keys of response.data._links) once listed
    entities,              \* the entity descriptors, in insertion order
    idx,                   \* the entity the current loop stands at
    exitStatus,            \* Some(status) once the process has ended in error
    thrown,                \* Some(what) once an exception has escaped
    modelFiles,            \* the files of outputDir/modelDir
    serviceFiles,          \* the files of outputDir/serviceDir
    outFiles,              \* the aggregator files of outputDir
    fsLog,                 \* the file system calls made so far
    modelsTemplateData,    \* modelsTemplateData.models
    servicesTemplateData,  \* servicesTemplateData.services
    previous,              \* how the invocation before this one ended
    text,                  \* the rendered class handed to the resolver
    applied                \* how often the resolver has been applied to text

vars == << pc, options, links, entities, idx, exitStatus, thrown, modelFiles, serviceFiles,
           outFiles, fsLog, modelsTemplateData, servicesTemplateData, previous,
           text, applied >>

resolverVars == << text, applied >>
outputVars == << modelFiles, serviceFiles, outFiles, fsLog, modelsTemplateData,
                 servicesTemplateData >>

AuthMethods == { "NONE", "COOKIE", "OAUTH2" }
OptionSets ==
    [authMethod : AuthMethods, noAdditionalProperties : BOOLEAN, noTrivialTypes : BOOLEAN]

File(file, content) == [file |-> file, content |-> content]
FsCall(op, dir, file) == [op |-> op, dir |-> dir, file |-> file]
\* a file a run before this one left in the model and service directories
StaleFile == File(<< "o", "l", "d", ".", "t", "s" >>, << >>)
\* fs.writeFileSync: the file is created or overwritten
WriteFile(files, file, content) ==
    { f \in files : f.file # file } \cup { File(file, content) }

\* the values handed to a template: a string, or an object
JsString(s) == [string |-> s]
JsObject(o) == [object |-> o]

Running == ~IsSome(exitStatus) /\ ~IsSome(thrown)

\* process.exit(status)
Exit(status) ==
    /\ exitStatus' = Some(status)
    /\ UNCHANGED << pc, options, links, idx, thrown, outputVars, previous, resolverVars >>

\* an exception leaves doGenerate: its promise is rejected, nothing handles
\* the rejection, and Node ends the process
Throw(what) ==
    /\ thrown' = Some(what)
    /\ \E status \in UnhandledRejectionStatuses : exitStatus' = Some(status)

InitRun ==
    /\ options \in OptionSets
    /\ pc = IF options.authMethod # "NONE" THEN "login" ELSE "list"
    /\ links = None
    /\ entities = << >>
    /\ idx = 1
    /\ exitStatus = None
    /\ thrown = None
    /\ \E stale \in SUBSET { StaleFile } : modelFiles = stale /\ serviceFiles = stale
    /\ outFiles = {}
    /\ fsLog = << >>
    /\ modelsTemplateData = << >>
    /\ servicesTemplateData = << >>

Init ==
    /\ InitRun
    /\ previous = None
    /\ text = << >>
    /\ applied = 0

(***************************************************************************)
(* doGenerate, lines 194-202: the login.                                   *)
(***************************************************************************)
DoLogin ==
    /\ Running /\ pc = "login"
    /\ \E authenticated \in BOOLEAN :
          IF authenticated
          THEN /\ pc' = "list"
               /\ UNCHANGED << options, links, entities, idx, exitStatus, thrown,
                               outputVars, previous, resolverVars >>
          ELSE Exit(ExitAuthentication) /\ UNCHANGED entities

(***************************************************************************)
(* collectRepositories.  The response is a failed request, data without    *)
(* _links, or data whose _links has the keys of a list of LinkKeyLists.    *)
(***************************************************************************)
\* a plausible slip: the self link is kept
CollectedKeysWithSelf(linkKeys) == linkKeys

\* lines 331-332
CollectedKeys(linkKeys) == removeElementFromArray(linkKeys, "self")

\* entities[key] = {'repository': key}
EntityOf(key) ==
    [key |-> key, repository |-> key, schema |-> None, alps |-> None, name |-> None]

CollectedEntities(linkKeys) ==
    LET keys == CollectedKeys(linkKeys)
    IN [i \in 1..Len(keys) |-> EntityOf(keys[i])]

CollectRepositories ==
    /\ Running /\ pc = "list"
    /\ \E response \in { "failed", "noLinks", "links" } :
          CASE response = "failed" -> Exit(ExitCollectRepositories) /\ UNCHANGED entities
            [] response = "noLinks" -> Exit(ExitNoLinks) /\ UNCHANGED entities
            [] OTHER ->
                 \E linkKeys \in LinkKeyLists :
                    /\ links' = Some(linkKeys)
                    /\ entities' = CollectedEntities(linkKeys)
                    /\ pc' = IF Len(entities') = 0 THEN "pre" ELSE "schemas"
                    /\ idx' = 1
                    /\ UNCHANGED << options, exitStatus, thrown, outputVars, previous,
                                    resolverVars >>

\* a plausible slip: the loop is left after its first entity
AdvanceAfterFirst(nextStage) == idx' = 1 /\ pc' = nextStage

\* the loops of collectSchemas and collectAlpsAndPopulateNames: on to the
\* next entity, or on to the next stage after the last one
Advance(nextStage) ==
    IF idx < Len(entities)
    THEN idx' = idx + 1 /\ pc' = pc
    ELSE idx' = 1 /\ pc' = nextStage

(***************************************************************************)
(* collectSchemas: one request per entity.                                 *)
(***************************************************************************)
CollectSchema ==
    /\ Running /\ pc = "schemas"
    /\ \E fetched \in BOOLEAN :
          IF fetched
          THEN /\ entities' = [entities EXCEPT
                                 ![idx].schema = Some(ServerSchema(entities[idx].key))]
               /\ Advance("alps")
               /\ UNCHANGED << options, links, exitStatus, thrown, outputVars, previous,
                               resolverVars >>
          ELSE Exit(ExitCollectSchemas) /\ UNCHANGED entities

(***************************************************************************)
(* collectAlpsAndPopulateNames: one request per entity.  The response has  *)
(* no alps member, or a profile; the handler throws when the profile is    *)
(* missing or its id does not match, and the catch clause exits.           *)
(***************************************************************************)
\* a plausible slip: the whole identifier is kept
NameOfWholeId(alps) == Some(alps.id)

\* element.alps.descriptor[0].id.match(REGEXP_OWN_ENTITY_NAME)[1]: None when
\* the match is null and indexing it throws
NameOf(alps) == MatchOwnEntityName(alps.id)

CollectAlps ==
    /\ Running /\ pc = "alps"
    /\ \E response \in { "failed", "noAlps", "malformed", "profile" } :
          CASE response \in { "failed", "noAlps" } ->
                 Exit(ExitCollectAlps) /\ UNCHANGED entities
            [] OTHER ->
                 \E alps \in (IF response = "malformed" THEN { MalformedProfile }
                              ELSE ServerProfiles(entities[idx].key)) :
                    IF IsSome(NameOf(alps))
                    THEN /\ entities' = [entities EXCEPT ![idx].alps = Some(alps),
                                                         ![idx].name = NameOf(alps)]
                         /\ Advance("pre")
                         /\ UNCHANGED << options, links, exitStatus, thrown, outputVars,
                                         previous, resolverVars >>
                    ELSE /\ entities' = [entities EXCEPT ![idx].alps = Some(alps)]
                         /\ Exit(ExitCollectAlps)

(***************************************************************************)
(* preProcessSchemas and removeTrivialTitles.                              *)
(***************************************************************************)
\* a plausible slip: the nested properties are not visited
removeTrivialTitlesShallow(object) ==
    [i \in 1..Len(object) |->
        IF ~IsSome(object[i].ref) THEN [object[i] EXCEPT !.title = None] ELSE object[i]]

RECURSIVE removeTrivialTitles(_)
removeTrivialTitles(object) ==
    [i \in 1..Len(object) |->
        LET property == object[i]
            untitled == IF ~IsSome(property.ref)
                        THEN [property EXCEPT !.title = None]
                        ELSE property
        IN IF IsSome(untitled.properties)
           THEN [untitled EXCEPT
                   !.properties = Some(removeTrivialTitles(Val(untitled.properties)))]
           ELSE untitled]

\* removeTrivialTitles(member || {}): an absent member stays absent
WithoutTrivialTitles(member) ==
    IF IsSome(member) THEN Some(removeTrivialTitles(Val(member))) ELSE member

PreProcessedSchema(schema, config) ==
    LET closed == IF config.noAdditionalProperties
                  THEN [schema EXCEPT !.additionalProperties = Some(FALSE)]
                  ELSE schema
    IN IF config.noTrivialTypes
       THEN [closed EXCEPT !.properties = WithoutTrivialTitles(closed.properties),
                           !.definitions = WithoutTrivialTitles(closed.definitions)]
       ELSE closed

PreProcessSchemas ==
    /\ Running /\ pc = "pre"
    /\ entities' = [i \in 1..Len(entities) |->
                      [entities[i] EXCEPT
                         !.schema = Some(PreProcessedSchema(Val(entities[i].schema), options))]]
    /\ pc' = "mkdir"
    /\ UNCHANGED << options, links, idx, exitStatus, thrown, outputVars, previous, resolverVars >>

(***************************************************************************)
(* doGenerate, lines 216-223: the output directories are created, then     *)
(* emptied.  Each file system call may throw; failAt is the call that      *)
(* does, 0 when none does.                                                 *)
(***************************************************************************)
OutputDirs == << "model", "service" >>

\* the calls made when the call failAt throws: those before it and itself
CallsUntil(calls, failAt) ==
    IF failAt = 0 THEN calls ELSE SubSeq(calls, 1, failAt)

CreateOutputDirs ==
    /\ Running /\ pc = "mkdir"
    /\ \E failAt \in 0..Len(OutputDirs) :
          /\ fsLog' = fsLog \o CallsUntil([i \in 1..Len(OutputDirs) |->
                                             FsCall("mkdirSync", OutputDirs[i], << >>)],
                                          failAt)
          /\ IF failAt = 0
             THEN pc' = "empty" /\ UNCHANGED << exitStatus, thrown >>
             ELSE Throw("mkdirSync") /\ UNCHANGED pc
          /\ UNCHANGED << options, links, entities, idx, modelFiles, serviceFiles, outFiles,
                          modelsTemplateData, servicesTemplateData, previous,
                          resolverVars >>

EmptyOutputDirs ==
    /\ Running /\ pc = "empty"
    /\ \E failAt \in 0..Len(OutputDirs) :
          /\ fsLog' = fsLog \o CallsUntil([i \in 1..Len(OutputDirs) |->
                                             FsCall("emptyDirSync", OutputDirs[i], << >>)],
                                          failAt)
          /\ modelFiles' = IF failAt = 1 THEN modelFiles ELSE {}
          /\ serviceFiles' = IF failAt = 0 THEN {} ELSE serviceFiles
          /\ IF failAt = 0
             THEN /\ pc' = IF Len(entities) = 0 THEN "aggregate" ELSE "generate"
                  /\ UNCHANGED << exitStatus, thrown >>
             ELSE Throw("emptyDirSync") /\ UNCHANGED pc
          /\ UNCHANGED << options, links, entities, idx, outFiles, modelsTemplateData,
                          servicesTemplateData, previous, resolverVars >>

(***************************************************************************)
(* generateTypeScriptFromSchema: one pass of the loop per entity, then the *)
(* two aggregator files.                                                   *)
(***************************************************************************)
TsSuffix == << ".", "t", "s" >>
ServiceTsSuffix == << ".", "s", "e", "r", "v", "i", "c", "e", ".", "t", "s" >>

\* lines 541-546
ServiceTemplateData(className, classNameKebab, element) ==
    [className |-> JsString(className),
     classNameKebab |-> JsString(classNameKebab),
     modelDir |-> JsString("model"),
     repositoryName |-> JsObject(element)]

\* lines 547-548, mustache.render(serviceTemplateString, serviceTemplateData):
\* the rendered text is kept as the data it is rendered from
RenderService(serviceTemplateData) == << serviceTemplateData >>

\* a plausible slip: only the class is listed, not the interface
ModelEntriesClassOnly(interfaceName, className, classNameKebab) ==
    << [modelClass |-> className, modelDir |-> "model", modelFile |-> classNameKebab] >>

\* lines 554-563: what one entity adds to modelsTemplateData.models
ModelEntries(interfaceName, className, classNameKebab) ==
    << [modelClass |-> interfaceName, modelDir |-> "model", modelFile |-> classNameKebab],
       [modelClass |-> className, modelDir |-> "model", modelFile |-> classNameKebab] >>

\* lines 564-568: what one entity adds to servicesTemplateData.services
ServiceEntries(className, classNameKebab) ==
    << [modelClass |-> className, serviceDir |-> "service", modelFile |-> classNameKebab] >>

GenerateEntity ==
    /\ Running /\ pc = "generate"
    /\ \E compiles \in BOOLEAN, failAt \in 0..2 :
          LET element == entities[idx]
              data == ClassTemplateData(compile(Val(element.schema), Val(element.name)))
              classNameKebab == kebabCase(data.className)
              renderedClass == postProcessTypeScriptFiles(element, RenderClass(data))
              classFileName == classNameKebab \o TsSuffix
              serviceFileName == classNameKebab \o ServiceTsSuffix
              renderedService ==
                  RenderService(ServiceTemplateData(data.className, classNameKebab, element))
              calls == << FsCall("writeFileSync", "model", classFileName),
                          FsCall("writeFileSync", "service", serviceFileName) >>
          IN IF ~compiles
             THEN /\ failAt = 0
                  /\ Throw("compile")
                  /\ UNCHANGED << pc, idx, outputVars >>
             ELSE IF ~IsSome(renderedClass)
             THEN /\ failAt = 0
                  /\ Throw("postProcessTypeScriptFiles")
                  /\ UNCHANGED << pc, idx, outputVars >>
             ELSE /\ fsLog' = fsLog \o CallsUntil(calls, failAt)
                  /\ modelFiles' = IF failAt = 1 THEN modelFiles
                                   ELSE WriteFile(modelFiles, classFileName,
                                                  Val(renderedClass))
                  /\ serviceFiles' = IF failAt # 0 THEN serviceFiles
                                     ELSE WriteFile(serviceFiles, serviceFileName,
                                                    renderedService)
                  /\ IF failAt = 0
                     THEN /\ modelsTemplateData' = modelsTemplateData
                                \o ModelEntries(data.interfaceName, data.className,
                                                classNameKebab)
                          /\ servicesTemplateData' = servicesTemplateData
                                \o ServiceEntries(data.className, classNameKebab)
                          /\ IF idx < Len(entities)
                             THEN idx' = idx + 1 /\ pc' = pc
                             ELSE idx' = idx /\ pc' = "aggregate"
                          /\ UNCHANGED << exitStatus, thrown >>
                     ELSE /\ Throw("writeFileSync")
                          /\ UNCHANGED << pc, idx, modelsTemplateData,
                                          servicesTemplateData >>
                  /\ UNCHANGED outFiles
    /\ UNCHANGED << options, links, entities, previous, resolverVars >>

\* lines 572-577
WriteAggregators ==
    /\ Running /\ pc = "aggregate"
    /\ \E failAt \in 0..2 :
          LET modelsFile == << "m", "o", "d", "e", "l" >> \o TsSuffix
              servicesFile == << "s", "e", "r", "v", "i", "c", "e" >> \o TsSuffix
              calls == << FsCall("writeFileSync", "out", modelsFile),
                          FsCall("writeFileSync", "out", servicesFile) >>
              withModels == WriteFile(outFiles, modelsFile, modelsTemplateData)
          IN /\ fsLog' = fsLog \o CallsUntil(calls, failAt)
             /\ outFiles' = CASE failAt = 1 -> outFiles
                              [] failAt = 2 -> withModels
                              [] OTHER -> WriteFile(withModels, servicesFile,
                                                    servicesTemplateData)
             /\ IF failAt = 0
                THEN pc' = "done" /\ UNCHANGED << exitStatus, thrown >>
                ELSE Throw("writeFileSync") /\ UNCHANGED pc
    /\ UNCHANGED << options, links, entities, idx, modelFiles, serviceFiles, modelsTemplateData,
                    servicesTemplateData, previous, resolverVars >>

Next ==
    \/ DoLogin
    \/ CollectRepositories
    \/ CollectSchema
    \/ CollectAlps
    \/ PreProcessSchemas
    \/ CreateOutputDirs
    \/ EmptyOutputDirs
    \/ GenerateEntity
    \/ WriteAggregators

Spec == Init /\ [][Next]_vars

(***************************************************************************)
(* The tool invoked again, with the same command line, after a run that    *)
(* ended in error (ngSpringDataRest is the entry point of every            *)
(* invocation).  previous keeps where and with which status the run before *)
(* ended; the files that run left are a stale file to this one.            *)
(***************************************************************************)
LeftBy(files) == IF files = {} THEN {} ELSE { StaleFile }

Restart ==
    /\ IsSome(exitStatus)
    /\ ~IsSome(previous)
    /\ previous' = Some([pc |-> pc, thrown |-> thrown, status |-> Val(exitStatus)])
    /\ pc' = IF options.authMethod # "NONE" THEN "login" ELSE "list"
    /\ links' = None
    /\ entities' = << >>
    /\ idx' = 1
    /\ exitStatus' = None
    /\ thrown' = None
    /\ fsLog' = << >>
    /\ modelsTemplateData' = << >>
    /\ servicesTemplateData' = << >>
    /\ modelFiles' = LeftBy(modelFiles)
    /\ serviceFiles' = LeftBy(serviceFiles)
    /\ outFiles' = LeftBy(outFiles)
    /\ UNCHANGED << options, resolverVars >>

InitInvocations ==
    /\ Init
    /\ ~options.noAdditionalProperties /\ ~options.noTrivialTypes
    /\ modelFiles = {}

NextInvocations == Next \/ Restart

SpecInvocations == InitInvocations /\ [][NextInvocations]_vars

(***************************************************************************)
(* preProcessSchemas on its own: the state after the description stage of  *)
(* a run over one entity, whose schema is any schema of NormSchemas:       *)
(* property definitions with or without a title, with or without a $ref,   *)
(* nested up to MaxDepth levels below the top.                             *)
(***************************************************************************)
RefToDefinition == << "#", "/", "d" >>

RECURSIVE NormProperties(_)
NormProperties(depth) ==
    { Property(W_name, title, ref, FALSE, nested) :
        title \in { None, Some(W_name) },
        ref \in { None, Some(RefToDefinition) },
        nested \in { None } \cup (IF depth = 0 THEN {}
                                  ELSE { Some(<< p >>) : p \in NormProperties(depth - 1) }) }

NormLeaf == Property(W_author, Some(W_author), None, FALSE, None)

NormSchemas ==
    { Schema(properties, definitions) :
        properties \in { None, Some(<< >>) }
                       \cup { Some(<< p >>) : p \in NormProperties(MaxDepth) }
                       \cup { Some(<< p, NormLeaf >>) : p \in NormProperties(MaxDepth) },
        definitions \in { None }
                        \cup { Some(<< p >>) : p \in NormProperties(MaxDepth - 1) } }

InitNormalize ==
    /\ options \in { o \in OptionSets : o.authMethod = "NONE" /\ ~o.noAdditionalProperties }
    /\ pc = "pre"
    /\ links = Some(<< "self", "books" >>)
    /\ \E schema \in NormSchemas :
          entities = << [EntityOf("books") EXCEPT
                           !.schema = Some(schema),
                           !.alps = Some(Profile(ProfileId(W_book), << >>)),
                           !.name = Some(W_book)] >>
    /\ idx = 1
    /\ exitStatus = None
    /\ thrown = None
    /\ modelFiles = {} /\ serviceFiles = {} /\ outFiles = {}
    /\ fsLog = << >>
    /\ modelsTemplateData = << >>
    /\ servicesTemplateData = << >>
    /\ previous = None
    /\ text = << >>
    /\ applied = 0

NextNormalize == PreProcessSchemas

SpecNormalize == InitNormalize /\ [][NextNormalize]_vars

(***************************************************************************)
(* postProcessTypeScriptFiles on its own: the rendered class of one entity *)
(* whose schema has up to MaxProps of the properties of ResolvePool, in    *)
(* any order, and whose profile describes up to MaxProps properties, in    *)
(* any order; the resolver is applied to its own result up to              *)
(* MaxApplications times.                                                  *)
(***************************************************************************)
MaxApplications == 2

ResolvePool ==
    { Titled(W_parent, FALSE), Titled(W_grandparent, FALSE), Titled(W_person, FALSE),
      Titled(W_personName, FALSE), Titled(W_books, TRUE) }

ResolveDescriptors ==
    { Descriptor(W_parent, Some(RtTo(W_person))),
      Descriptor(W_grandparent, Some(RtTo(W_person))),
      Descriptor(W_person, Some(RtTo(W_person))),
      Descriptor(W_personName, None),
      Descriptor(W_books, Some(RtTo(W_book))),
      Descriptor(W_parent, Some(W_parent)) }

\* the sequences of at most MaxProps members of pool with different names
NamedSequences(pool) ==
    { seq \in UNION { [1..n -> pool] : n \in 0..MaxProps } :
        \A i, j \in 1..Len(seq) : seq[i].name = seq[j].name => i = j }

InitResolve ==
    /\ options \in { o \in OptionSets : o.authMethod = "NONE" /\ ~o.noAdditionalProperties }
    /\ pc = "resolve"
    /\ links = Some(<< "self", "books" >>)
    /\ \E properties \in NamedSequences(ResolvePool),
          descriptor \in NamedSequences(ResolveDescriptors) :
          entities = << [EntityOf("books") EXCEPT
                           !.schema = Some(PreProcessedSchema(
                                              Schema(Some(properties), None), options)),
                           !.alps = Some(Profile(ProfileId(W_book), descriptor)),
                           !.name = Some(W_book)] >>
    /\ idx = 1
    /\ exitStatus = None
    /\ thrown = None
    /\ modelFiles = {} /\ serviceFiles = {} /\ outFiles = {}
    /\ fsLog = << >>
    /\ modelsTemplateData = << >>
    /\ servicesTemplateData = << >>
    /\ previous = None
    /\ text = RenderedClassOf(entities[1])
    /\ applied = 0

ResolveReferences ==
    /\ pc = "resolve" /\ ~IsSome(thrown)
    /\ applied < MaxApplications
    /\ LET renderedClass == postProcessTypeScriptFiles(entities[1], text)
       IN IF IsSome(renderedClass)
          THEN text' = Val(renderedClass) /\ applied' = applied + 1 /\ UNCHANGED thrown
          ELSE thrown' = Some("postProcessTypeScriptFiles") /\ UNCHANGED << text, applied >>
    /\ UNCHANGED << pc, options, links, entities, idx, exitStatus, outputVars, previous >>

NextResolve == ResolveReferences

SpecResolve == InitResolve /\ [][NextResolve]_vars

(***************************************************************************)
(* Claims about the reference resolver, under SpecResolve.                 *)
(***************************************************************************)
\* the profile properties of the resolved entity that carry an rt
RelationsOf(entity) ==
    { d \in Range(PropertyDescriptors(entity)) : IsSome(d.rt) }

\* the class name of the entity a relation points at: UpperCamelCase(target)
TargetClass(d) == upperCamelCase(Val(MatchRtEntityName(Val(d.rt))).word)

\* the property lines of a text that declare the property named name
DeclarationsOf(t, name) ==
    { i \in 1..Len(t) : t[i].kind = "prop" /\ t[i].name = name }

\* the text before the resolver was applied to it
UnresolvedText == RenderedClassOf(entities[1])

\* C1: after postProcessTypeScriptFiles, every declaration of a property
\* that carries an rt (in the interface block and in the class block) has
\* the type UpperCamelCase(target), with [] exactly when the property name is
\* plural, and keeps the optional marker it had; none keeps the alias.
C1_DeclaredTypesResolved ==
    (pc = "resolve" /\ applied >= 1) =>
        \A d \in RelationsOf(entities[1]) :
            \A i \in DeclarationsOf(text, d.name) :
                /\ text[i].type = Type(TargetClass(d), isPlural(d.name))
                /\ \A j \in DeclarationsOf(UnresolvedText, d.name) :
                      text[i].opt = UnresolvedText[j].opt

\* the import of the entity a relation points at
ImportOf(d) == ImportLine(TargetClass(d), kebabCase(TargetClass(d)))

\* line i of t stands in the block of imports that directly follows the
\* base-class import line
InImportBlock(t, i) ==
    /\ t[1] = BaseImportLine
    /\ i > 1
    /\ \A k \in 2..i : t[k].kind = "import"

ImportedOnce(t, d) ==
    /\ Cardinality({ i \in 1..Len(t) : t[i] = ImportOf(d) }) = 1
    /\ \A i \in 1..Len(t) : t[i] = ImportOf(d) => InImportBlock(t, i)

\* C2: after postProcessTypeScriptFiles the text holds the import of every
\* referenced entity exactly once, in the lines right after the base-class
\* import; and applying the resolver to resolved text leaves it unchanged.
C2_ImportedOnceAndIdempotent ==
    /\ (pc = "resolve" /\ applied >= 1) =>
          \A d \in RelationsOf(entities[1]) : ImportedOnce(text, d)
    /\ (pc = "resolve" /\ applied >= 2) =>
          text = Val(postProcessTypeScriptFiles(entities[1], UnresolvedText))

\* the import half of C2 alone
ImportsOnceOnly ==
    (pc = "resolve" /\ applied >= 1) =>
        \A d \in RelationsOf(entities[1]) : ImportedOnce(text, d)

(***************************************************************************)
(* Claims about a run, under Spec.                                         *)
(***************************************************************************)
Generating == pc \in { "generate", "aggregate", "done" }
Described == pc \in { "pre", "mkdir", "empty", "generate", "aggregate", "done" }

\* the class the compiler names after an entity, and the entity's files
ClassOf(e) == UpperFirst(Val(e.name))
ModelFileOf(e) == kebabCase(ClassOf(e)) \o TsSuffix
ServiceFileOf(e) == kebabCase(ClassOf(e)) \o ServiceTsSuffix

\* C3: after a successful run there is exactly one model file and exactly
\* one service file for every collected key, whatever names the keys yield.
C3_OneFilePairPerKey ==
    pc = "done" =>
        /\ Cardinality(modelFiles) = Len(entities)
        /\ Cardinality(serviceFiles) = Len(entities)
        /\ \A i \in 1..Len(entities) :
              /\ \E f \in modelFiles : f.file = ModelFileOf(entities[i])
              /\ \E f \in serviceFiles : f.file = ServiceFileOf(entities[i])

\* C4: no model file is written that imports an entity which is not among
\* the entity descriptors collected in the run.
C4_ImportsOnlyCollectedEntities ==
    Generating =>
        \A f \in modelFiles : \A i \in 1..Len(f.content) :
            f.content[i].kind = "import" =>
                \E k \in 1..Len(entities) :
                    upperCamelCase(Val(entities[k].name)) = f.content[i].name

\* C7: the repository name handed to the service template of an entity is
\* the entity's repository key.
C7_ServiceBoundToRepositoryKey ==
    Generating =>
        \A f \in serviceFiles :
            \E k \in 1..Len(entities) :
                /\ f.file = ServiceFileOf(entities[k])
                /\ f.content[1].repositoryName = JsString(entities[k].repository)

\* the number of files the log shows written into dir before call k
WritesBefore(k, dir) ==
    Cardinality({ j \in 1..(k - 1) : fsLog[j].op = "writeFileSync" /\ fsLog[j].dir = dir })

\* C8: a successful run over N entities renders the model aggregator with
\* 2N entries (interface and class of every entity, with its file) and the
\* service aggregator with N entries, and no aggregator file is written
\* before the model and service files of all N entities.
C8_Aggregators ==
    LET N == Len(entities) IN
    /\ pc = "done" =>
          /\ Len(modelsTemplateData) = 2 * N
          /\ Len(servicesTemplateData) = N
          /\ \A i \in 1..N :
                LET class == ClassOf(entities[i])
                    file == kebabCase(class)
                IN /\ modelsTemplateData[2 * i - 1].modelClass = << "I" >> \o class
                   /\ modelsTemplateData[2 * i].modelClass = class
                   /\ modelsTemplateData[2 * i - 1].modelFile = file
                   /\ modelsTemplateData[2 * i].modelFile = file
                   /\ servicesTemplateData[i].modelClass = class
                   /\ servicesTemplateData[i].modelFile = file
          /\ { f.content : f \in outFiles } = { modelsTemplateData, servicesTemplateData }
    /\ \A k \in 1..Len(fsLog) :
          fsLog[k].dir = "out" =>
              /\ WritesBefore(k, "model") = N
              /\ WritesBefore(k, "service") = N

C8_Witness == pc = "done" /\ Len(entities) >= 2 /\ Cardinality(outFiles) = 2

\* C6: either the entities are exactly one descriptor per key of the
\* response's link collection other than self, each with its key as
\* repository, or the run has ended with a discovery exit status with no
\* directory created or cleared and no file written; nothing in between.
C6_ListingAllOrNothing ==
    /\ pc \in { "login", "list" } =>
          /\ entities = << >>
          /\ fsLog = << >>
          /\ outFiles = {}
    /\ (pc = "list" /\ IsSome(exitStatus)) =>
          Val(exitStatus) \in { ExitCollectRepositories, ExitNoLinks }
    /\ pc \notin { "login", "list" } =>
          /\ IsSome(links)
          /\ { entities[i].key : i \in 1..Len(entities) } = Range(Val(links)) \ { "self" }
          /\ Len(entities) = Cardinality(Range(Val(links)) \ { "self" })
          /\ \A i \in 1..Len(entities) : entities[i].repository = entities[i].key

C6_Witness ==
    /\ pc = "schemas"
    /\ Len(Val(links)) >= 2 /\ Val(links)[2] = "self"
    /\ Len(entities) = Len(Val(links)) - 1

\* name is the run of word characters right before the first separator
\* of id that follows a word character
IsCapturedWord(name, id) ==
    \E k \in 1..Len(id) :
        /\ id[k] = "-"
        /\ Len(name) >= 1 /\ Len(name) < k
        /\ SubSeq(id, k - Len(name), k - 1) = name
        /\ \A i \in 1..Len(name) : IsWordChar(name[i])
        /\ (k - Len(name) = 1 \/ ~IsWordChar(id[k - Len(name) - 1]))
        /\ \A j \in 1..(k - 1) : id[j] = "-" => (j = 1 \/ ~IsWordChar(id[j - 1]))

\* C10: once the description stage is over every entity has a schema, a
\* profile and the name captured from the profile's id; a run that ended in
\* the description stage ended with a description exit status, with the
\* schemas as fetched and no file system call made.
C10_DescriptionCompleteOrFatal ==
    /\ Described =>
          \A i \in 1..Len(entities) :
              /\ IsSome(entities[i].schema)
              /\ IsSome(entities[i].alps)
              /\ IsSome(entities[i].name)
              /\ IsCapturedWord(Val(entities[i].name), Val(entities[i].alps).id)
    /\ (pc \in { "schemas", "alps" } /\ IsSome(exitStatus)) =>
          /\ Val(exitStatus) = IF pc = "schemas" THEN ExitCollectSchemas ELSE ExitCollectAlps
          /\ fsLog = << >>
          /\ modelsTemplateData = << >> /\ servicesTemplateData = << >>
          /\ \A i \in 1..Len(entities) :
                IsSome(entities[i].schema) =>
                    Val(entities[i].schema) = ServerSchema(entities[i].key)

C10_Witness == pc = "pre" /\ Len(entities) >= 2 /\ IsSome(entities[2].name)

(***************************************************************************)
(* The claim about the exit statuses, under SpecInvocations.               *)
(***************************************************************************)
\* the failure category of a run that ended at stage where, what thrown
CategoryOf(where, what) ==
    CASE where = "login" -> "authentication"
      [] where = "list" -> "discovery"
      [] where \in { "schemas", "alps" } -> "description"
      [] what = Some("postProcessTypeScriptFiles") -> "resolution"
      [] what \in { Some("mkdirSync"), Some("emptyDirSync"), Some("writeFileSync") } ->
            "emission"
      [] OTHER -> "compilation"

Categories == { "authentication", "discovery", "description", "resolution", "emission" }

\* C5: two runs that fail in different categories end with different exit
\* statuses.
C5_CategoriesHaveDistinctStatuses ==
    (IsSome(previous) /\ IsSome(exitStatus)) =>
        LET before == CategoryOf(Val(previous).pc, Val(previous).thrown)
            now == CategoryOf(pc, thrown)
        IN (before \in Categories /\ now \in Categories /\ before # now) =>
               Val(previous).status # Val(exitStatus)

(***************************************************************************)
(* The claim about the normalizer, under SpecNormalize.                    *)
(***************************************************************************)
\* the places of the property definitions below a set of properties: a
\* place is the sequence of positions that leads to the definition
RECURSIVE PlacesIn(_)
PlacesIn(props) ==
    { << i >> : i \in 1..Len(props) }
    \cup UNION { { << i >> \o place : place \in PlacesIn(Val(props[i].properties)) } :
                 i \in { k \in 1..Len(props) : IsSome(props[k].properties) } }

RECURSIVE DefinitionAt(_, _)
DefinitionAt(props, place) ==
    IF Len(place) = 1 THEN props[place[1]]
    ELSE DefinitionAt(Val(props[place[1]].properties), Tail(place))

\* after is before with the title taken from every definition without $ref
TitlesSuppressed(before, after) ==
    /\ IsSome(before) = IsSome(after)
    /\ IsSome(before) =>
          /\ PlacesIn(Val(after)) = PlacesIn(Val(before))
          /\ \A place \in PlacesIn(Val(before)) :
                LET old == DefinitionAt(Val(before), place)
                    new == DefinitionAt(Val(after), place)
                IN /\ new.ref = old.ref
                   /\ new.title = IF IsSome(old.ref) THEN old.title ELSE None

\* C9: preProcessSchemas with noTrivialTypes leaves every property
\* definition of the schema's properties and definitions, at every depth,
\* without a title when it has no $ref and with its title when it has one,
\* and does not fail, whether or not the schema has properties or definitions.
C9_TrivialTitlesSuppressed ==
    [][(pc = "pre" /\ options.noTrivialTypes) =>
          /\ pc' = "mkdir" /\ ~IsSome(thrown') /\ ~IsSome(exitStatus')
          /\ Len(entities') = Len(entities)
          /\ \A i \in 1..Len(entities) :
                /\ TitlesSuppressed(Val(entities[i].schema).properties,
                                    Val(entities'[i].schema).properties)
                /\ TitlesSuppressed(Val(entities[i].schema).definitions,
                                    Val(entities'[i].schema).definitions)]_vars

\* a normalized schema whose properties nest MaxDepth levels deep, with a
\* $ref and its title kept at the deepest level, and without definitions
C9_Witness ==
    /\ pc = "mkdir" /\ options.noTrivialTypes
    /\ Len(entities) = 1
    /\ LET schema == Val(entities[1].schema)
       IN /\ IsSome(schema.properties) /\ ~IsSome(schema.definitions)
          /\ \E place \in PlacesIn(Val(schema.properties)) :
                /\ Len(place) = MaxDepth + 1
                /\ IsSome(DefinitionAt(Val(schema.properties), place).ref)
                /\ IsSome(DefinitionAt(Val(schema.properties), place).title)
          /\ \E place \in PlacesIn(Val(schema.properties)) :
                ~IsSome(DefinitionAt(Val(schema.properties), place).ref)

(***************************************************************************)
(* The claim about the order of the steps, under Spec.                     *)
(***************************************************************************)
StageOrder ==
    << "login", "list", "schemas", "alps", "pre", "mkdir", "empty", "generate",
       "aggregate", "done" >>
StageRank(stage) == CHOOSE r \in 1..Len(StageOrder) : StageOrder[r] = stage

HasSchema(e) == IsSome(e.schema)
HasProfile(e) == IsSome(e.alps)
CallsOf(op, dir) == { k \in 1..Len(fsLog) : fsLog[k].op = op /\ fsLog[k].dir = dir }

\* one step of a run taken in order: the stage never goes back; a step of
\* the schema loop answers the one request of the first entity without a
\* schema, and no profile is fetched yet; a step of the profile loop
\* answers the one request of the first entity without a profile, all
\* schemas being there; nothing else touches a schema's or profile's presence
StepInOrder ==
    /\ StageRank(pc') >= StageRank(pc)
    /\ Len(entities) > 0 => Len(entities') = Len(entities)
    /\ \A i \in 1..Len(entities) :
          /\ (HasSchema(entities'[i]) # HasSchema(entities[i])) =>
                /\ pc = "schemas" /\ i = idx /\ HasSchema(entities'[i])
                /\ \A j \in 1..Len(entities) :
                      /\ HasSchema(entities[j]) <=> j < i
                      /\ ~HasProfile(entities[j])
                      /\ j # i => entities'[j] = entities[j]
          /\ (HasProfile(entities'[i]) # HasProfile(entities[i])) =>
                /\ pc = "alps" /\ i = idx /\ HasProfile(entities'[i])
                /\ \A j \in 1..Len(entities) :
                      /\ HasSchema(entities[j])
                      /\ HasProfile(entities[j]) <=> j < i
                      /\ j # i => entities'[j] = entities[j]
    /\ (pc = "pre" /\ pc' # pc) => fsLog' = fsLog
    /\ fsLog' # fsLog => StageRank(pc) > StageRank("pre")

\* the file system calls made so far are in order: none before every
\* entity has its schema, profile and name; no directory emptied in a run
\* that ended while fetching; every write after both directories were emptied
CallsInOrder ==
    /\ fsLog # << >> =>
          /\ StageRank(pc) > StageRank("pre")
          /\ \A i \in 1..Len(entities) :
                HasSchema(entities[i]) /\ HasProfile(entities[i]) /\ IsSome(entities[i].name)
    /\ \A k \in 1..Len(fsLog) :
          fsLog[k].op = "writeFileSync" =>
              /\ \E m \in CallsOf("emptyDirSync", "model") : m < k
              /\ \E m \in CallsOf("emptyDirSync", "service") : m < k
    /\ \A k \in 1..Len(fsLog) :
          fsLog[k].op = "emptyDirSync" =>
              \A m \in 1..Len(fsLog) : fsLog[m].op = "mkdirSync" => m < k

\* C11: in every run the steps come in the fixed order listing, the schema
\* fetches one entity after another, the profile fetches one entity after
\* another, normalization, the clearing of both directories, the file
\* writes, one request per step; no directory is cleared before all fetches
\* have succeeded and no file is written before both directories are cleared.
C11_StepsInFixedOrder == [][StepInOrder]_vars /\ []CallsInOrder

\* two entities fetched one after the other, both directories cleared, the
\* first entity's two files written
C11_Witness ==
    /\ pc = "generate" /\ Len(entities) = 2 /\ idx = 2
    /\ Len(fsLog) = 6
    /\ fsLog[3].op = "emptyDirSync" /\ fsLog[4].op = "emptyDirSync"
    /\ fsLog[5].op = "writeFileSync" /\ fsLog[6].op = "writeFileSync"

(***************************************************************************)
(* The frame claims about the reference resolver, under SpecResolve.       *)
(***************************************************************************)
\* the alias lines of a text
AliasesOf(t) == { t[i] : i \in { k \in 1..Len(t) : t[k].kind = "alias" } }

\* the names of the generated aliases the relations' properties are
\* declared with before the resolver is applied
ResolvedAliases ==
    { UnresolvedText[i].type.name :
        i \in UNION { DeclarationsOf(UnresolvedText, d.name) :
                        d \in RelationsOf(entities[1]) } }

\* no property of the text has a name that merely ends with a relation's
\* name, so that the property the resolver finds is the relation's own
NamesApart ==
    \A d \in RelationsOf(entities[1]) :
        \A i \in 1..Len(UnresolvedText) :
            (UnresolvedText[i].kind = "prop" /\ IsSuffix(d.name, UnresolvedText[i].name)) =>
                UnresolvedText[i].name = d.name

\* C12: after one application of postProcessTypeScriptFiles every alias
\* declaration whose name is not exactly the alias of a resolved property
\* is still in the text, also one whose name starts with such an alias.
C12_OnlyExactAliasRemoved ==
    (pc = "resolve" /\ applied = 1 /\ NamesApart) =>
        \A alias \in AliasesOf(UnresolvedText) :
            alias.name \notin ResolvedAliases => alias \in AliasesOf(text)

\* the property names of a text that are not the name of a relation
OtherProperties(t) ==
    { t[i].name : i \in { k \in 1..Len(t) : t[k].kind = "prop" } }
    \ { d.name : d \in RelationsOf(entities[1]) }

\* the types the declarations of the property named name have in a text
DeclaredTypes(t, name) == { t[i].type : i \in DeclarationsOf(t, name) }

\* C13: after one application of postProcessTypeScriptFiles every property
\* that is not a relation's property has the declared type it had before,
\* also a property whose name ends with the name of a relation's property.
C13_OnlyExactPropertyRewritten ==
    (pc = "resolve" /\ applied = 1) =>
        \A name \in OtherProperties(UnresolvedText) :
            DeclaredTypes(text, name) = DeclaredTypes(UnresolvedText, name)

(***************************************************************************)
(* The claim about a run aborted by a failing entity, under Spec.          *)
(***************************************************************************)
\* the resolution of entity e fails: a relation's rt does not match the
\* pattern, or the generated text declares no property of a relation's name
ResolutionFailsFor(e) ==
    \E d \in RelationsOf(e) :
        \/ ~IsSome(MatchRtEntityName(Val(d.rt)))
        \/ DeclarationsOf(RenderedClassOf(e), d.name) = {}

\* no file of entity i or of a later entity was written, and no aggregator
NothingWrittenFrom(i) ==
    /\ pc = "generate" /\ idx <= i
    /\ WritesBefore(Len(fsLog) + 1, "model") < i
    /\ WritesBefore(Len(fsLog) + 1, "service") < i
    /\ WritesBefore(Len(fsLog) + 1, "out") = 0
    /\ outFiles = {}

\* C14: when the compilation or the resolution of an entity fails, no model
\* or service file is written for it or for a later entity, and no
\* aggregator file is written.
C14_FailingEntityAbortsRun ==
    Generating =>
        /\ thrown \in { Some("compile"), Some("postProcessTypeScriptFiles") } =>
              NothingWrittenFrom(idx)
        /\ \A i \in 1..Len(entities) :
              ResolutionFailsFor(entities[i]) => NothingWrittenFrom(i)

\* the half of C14 about the failures the code detects
AbortsWhenThrown ==
    (Generating /\ thrown \in { Some("compile"), Some("postProcessTypeScriptFiles") }) =>
        NothingWrittenFrom(idx)

=============================================================================
